---- MODULE Spec2Model ----
(***************************************************************************)
(* Model of mkdocs_drawio/plugin.py (DrawioPlugin): the page selector and  *)
(* container splicer (substitute_with_file), the option resolver           *)
(* (get_diagram_config), the editor-link builder (inject_edit_link,        *)
(* build_editor_url) and the per-page loop (_process_drawio_page).         *)
(*                                                                         *)
(* Python strings are sequences of one-character strings, so that str(),   *)
(* int(), str.isdigit(), str.strip(), str.split() and the range regex are  *)
(* computed as Python computes them.  Python's None is the one-element     *)
(* sequence None, whose element is no character of any string.             *)
(***************************************************************************)
EXTENDS Integers, Sequences, FiniteSets, TLC

VARIABLES
    pc,               \* position in _process_drawio_page
    site,             \* self.config, the plugin's site-wide configuration
    host_page,        \* the host page object (its edit_url)
    todo,             \* number of img tags of the page still to process
    img,              \* attrs of the img tag being processed (diagram)
    src_file,         \* what etree.parse yields for the file diagram["src"] names
    requested_pages,  \* the selector of the tag (line 274-280)
    sub,              \* outcome of substitute_with_file (line 283)
    diagram_config,   \* outcome of get_diagram_config (line 287)
    editor_href,      \* result of inject_edit_link (line 289)
    soup              \* the fragments put in place of the processed tags

vars == <<pc, site, host_page, todo, img, src_file, requested_pages, sub,
          diagram_config, editor_href, soup>>

----------------------------------------------------------------------------
(* Bounds of the model *)

MaxPages == 2

MaxTokens == 3

MaxRefs == 2

----------------------------------------------------------------------------
(* Python values *)

None == <<"None">>

\* None where a list of strings is expected (pages, requested_pages)
NoPages == <<None>>

\* U+00B2 SUPERSCRIPT TWO: str.isdigit() accepts it, int() and \d do not.
Sup2 == "sup2"

DigitVal == [c \in {"0", "1", "2", "3", "4", "5", "6", "7", "8", "9"} |->
               CASE c = "0" -> 0 [] c = "1" -> 1 [] c = "2" -> 2 [] c = "3" -> 3
                 [] c = "4" -> 4 [] c = "5" -> 5 [] c = "6" -> 6 [] c = "7" -> 7
                 [] c = "8" -> 8 [] c = "9" -> 9]

DigitChar == [d \in 0..9 |-> CHOOSE c \in DOMAIN DigitVal : DigitVal[c] = d]

IsDecimal(c) == c \in DOMAIN DigitVal

\* x or y
Truthy(x) == x # None /\ x # <<>>

Or(x, y) == IF Truthy(x) THEN x ELSE y

RECURSIVE str(_)
str(i) == IF i < 0 THEN <<"-">> \o str(-i)
          ELSE IF i < 10 THEN <<DigitChar[i]>>
          ELSE str(i \div 10) \o <<DigitChar[i % 10]>>

\* str.isdigit(): non-empty, every character a digit; superscripts count.
isdigit(s) == Len(s) > 0 /\ \A i \in 1..Len(s) : IsDecimal(s[i]) \/ s[i] = Sup2

AllDecimal(s) == Len(s) > 0 /\ \A i \in 1..Len(s) : IsDecimal(s[i])

RECURSIVE DecimalValue(_)
DecimalValue(s) == IF Len(s) = 0 THEN 0
                   ELSE 10 * DecimalValue(SubSeq(s, 1, Len(s) - 1)) + DigitVal[s[Len(s)]]

RECURSIVE lstrip(_)
lstrip(s) == IF Len(s) > 0 /\ s[1] = " " THEN lstrip(Tail(s)) ELSE s

RECURSIVE rstrip(_)
rstrip(s) == IF Len(s) > 0 /\ s[Len(s)] = " " THEN rstrip(SubSeq(s, 1, Len(s) - 1)) ELSE s

strip(s) == rstrip(lstrip(s))

\* int(x) of a string: surrounding whitespace and one sign are accepted, the
\* rest must be decimal digits; anything else raises ValueError.
int(s) == LET t == strip(s)
              neg == Len(t) > 0 /\ t[1] = "-"
              u == IF Len(t) > 0 /\ t[1] \in {"-", "+"} THEN Tail(t) ELSE t
          IN  IF AllDecimal(u)
              THEN [raised |-> FALSE, value |-> IF neg THEN -DecimalValue(u) ELSE DecimalValue(u)]
              ELSE [raised |-> TRUE, value |-> 0]

\* str.lower() on the letters the model uses.
LowerChar(c) == CASE c = "A" -> "a" [] c = "E" -> "e" [] c = "F" -> "f"
                  [] c = "L" -> "l" [] c = "N" -> "n" [] c = "O" -> "o"
                  [] c = "R" -> "r" [] c = "S" -> "s" [] c = "T" -> "t"
                  [] c = "U" -> "u" [] c = "Y" -> "y" [] OTHER -> c

lower(s) == [i \in 1..Len(s) |-> LowerChar(s[i])]

\* html.escape(s)
EscapeChar(c) == CASE c = "&" -> <<"&", "a", "m", "p", ";">>
                   [] c = "<" -> <<"&", "l", "t", ";">>
                   [] c = ">" -> <<"&", "g", "t", ";">>
                   [] c = "\"" -> <<"&", "q", "u", "o", "t", ";">>
                   [] c = "'" -> <<"&", "#", "x", "2", "7", ";">>
                   [] OTHER -> <<c>>

RECURSIVE escape(_)
escape(s) == IF Len(s) = 0 THEN <<>> ELSE EscapeChar(s[1]) \o escape(Tail(s))

\* s.split(sep) for a one-character separator
RECURSIVE split(_, _)
split(s, sep) ==
    IF \E i \in 1..Len(s) : s[i] = sep
    THEN LET k == CHOOSE i \in 1..Len(s) : s[i] = sep /\ \A j \in 1..(i - 1) : s[j] # sep
         IN  <<SubSeq(s, 1, k - 1)>> \o split(SubSeq(s, k + 1, Len(s)), sep)
    ELSE <<s>>

\* re.match(r"^\d+-\d+$", page)
IsRange(s) == \E k \in 2..(Len(s) - 1) :
                 /\ s[k] = "-"
                 /\ \A i \in 1..Len(s) : i # k => IsDecimal(s[i])

\* [str(i) for i in range(start, end + 1)]
RangeStrs(start, end) == [i \in 1..(IF end >= start THEN end - start + 1 ELSE 0) |-> str(start + i - 1)]

----------------------------------------------------------------------------
(* A parsed source document: diagram_xml.xpath("//diagram") is a sequence  *)
(* of page elements, each with an optional name, an optional id and its    *)
(* content.  Unreadable is a source etree.parse() raises on.               *)

Unreadable == [parsed |-> FALSE, diagrams |-> <<>>]

Parsed(diagrams) == [parsed |-> TRUE, diagrams |-> diagrams]

get(d, attr) == IF attr = "name" THEN d.name ELSE d.id

\* etree.fromstring(etree.tostring(selected)): an independent element with
\* the same attributes and content
Clone(d) == [name |-> get(d, "name"), id |-> get(d, "id"), content |-> d.content]

\* _styled_error_html(message)
StyledErrorHtml(message) == [kind |-> "drawio-error", message |-> message]

\* SUB_TEMPLATE.substitute(background=..., config=escape(json.dumps(config)))
SubTemplate(background, config) == [kind |-> "mxgraph", background |-> background, config |-> config]

\* config.get("viewerBackground", "transparent")
ViewerBackground(config) ==
    IF "viewerBackground" \in DOMAIN config THEN config.viewerBackground
    ELSE <<"t", "r", "a", "n", "s", "p", "a", "r", "e", "n", "t">>

\* all_available = [d.get("name") or str(i) for i, d in enumerate(diagrams)]
AllAvailable(diagrams) == [i \in 1..Len(diagrams) |-> Or(get(diagrams[i], "name"), str(i - 1))]

AtFirst == <<"@", "f", "i", "r", "s", "t">>

AtLast == <<"@", "l", "a", "s", "t">>

\* One token of the selector: the identifiers it resolves to (lines 359-374).
Resolve(token, diagrams) ==
    LET page == strip(token)
    IN  IF page = AtFirst THEN <<str(0)>>
        ELSE IF page = AtLast THEN <<str(Len(diagrams) - 1)>>
        ELSE IF IsRange(page)
             THEN LET parts == split(page, "-")
                  IN  RangeStrs(int(parts[1]).value, int(parts[2]).value)
        ELSE <<page>>

\* The loop without its seen-set: every resolved identifier is appended.
AddResolvedNoDedup(st, resolved) ==
    [st EXCEPT !.expanded_pages = @ \o resolved]

\* for r in resolved: first occurrence appended, repeats recorded
RECURSIVE AddResolved(_, _)
AddResolved(st, resolved) ==
    IF Len(resolved) = 0 THEN st
    ELSE LET r == resolved[1]
         IN  AddResolved(
                 IF r \notin st.seen
                 THEN [seen |-> st.seen \cup {r},
                       expanded_pages |-> Append(st.expanded_pages, r),
                       duplicates |-> st.duplicates]
                 ELSE [st EXCEPT !.duplicates = @ \cup {r}],
                 Tail(resolved))

\* The expansion loop over the requested tokens (lines 354-390).
RECURSIVE ExpandFrom(_, _, _)
ExpandFrom(st, pages, diagrams) ==
    IF Len(pages) = 0 THEN st
    ELSE ExpandFrom(AddResolved(st, Resolve(pages[1], diagrams)), Tail(pages), diagrams)

ExpandPages(pages, diagrams) ==
    ExpandFrom([seen |-> {}, expanded_pages |-> <<>>, duplicates |-> {}], pages, diagrams)

\* The local variable index is unbound until the index fallback first runs.
Unbound == -1

\* for d in diagrams: if d.get("name") == page: selected = d; break
NameMatch(diagrams, page) ==
    IF \E i \in 1..Len(diagrams) : get(diagrams[i], "name") = page
    THEN CHOOSE i \in 1..Len(diagrams) :
            /\ get(diagrams[i], "name") = page
            /\ \A j \in 1..(i - 1) : get(diagrams[j], "name") # page
    ELSE 0

\* actual_name = selected.get("name") or str(index if 'index' in locals() else page)
ActualName(selected, index, page) ==
    Or(get(selected, "name"), IF index # Unbound THEN str(index) ELSE page)

\* One iteration of the selection loop (lines 397-429).  selected is the
\* 1-based position of the chosen element, 0 for None.
SelectStep(st, page, diagrams) ==
    LET byName == NameMatch(diagrams, page)
        fallback == byName = 0 /\ isdigit(page)
        parsed == int(page)
    IN  IF fallback /\ parsed.raised THEN [st EXCEPT !.raised = TRUE]
        ELSE LET index == IF fallback THEN parsed.value ELSE st.index
                 selected == IF byName # 0 THEN byName
                             ELSE IF fallback /\ 0 <= index /\ index < Len(diagrams)
                                  THEN index + 1
                                  ELSE 0
             IN  IF selected # 0
                 THEN [raised |-> FALSE,
                       index |-> index,
                       mxfile_el |-> Append(st.mxfile_el, Clone(diagrams[selected])),
                       page_names |-> Append(st.page_names,
                                             ActualName(diagrams[selected], index, page))]
                 ELSE [st EXCEPT !.index = index]

RECURSIVE SelectFrom(_, _, _)
SelectFrom(st, pages, diagrams) ==
    IF Len(pages) = 0 \/ st.raised THEN st
    ELSE SelectFrom(SelectStep(st, pages[1], diagrams), Tail(pages), diagrams)

SelectPages(pages, diagrams) ==
    SelectFrom([raised |-> FALSE, index |-> Unbound, mxfile_el |-> <<>>, page_names |-> <<>>],
               pages, diagrams)

EmptyConfig == [k \in {} |-> <<>>]

\* The message of the "no matching pages" artifact (lines 434-440).
NoMatchMessage(src, pages, all_available) ==
    [text |-> "No matching pages found in", src |-> src,
     requested |-> [i \in 1..Len(pages) |-> escape(pages[i])],
     available |-> [i \in 1..Len(all_available) |-> escape(all_available[i])]]

\* substitute_with_file(config, path, src, pages, markdown_file), called with
\* an empty config.  source is what etree.parse(resolved_path) yields.  The
\* result holds the returned pair, the config dict as the call leaves it,
\* the final value of the local pages, and whether the call raised.
substitute_with_file(source, src, pages) ==
    IF ~source.parsed
    THEN [raised |-> FALSE, pages |-> pages, config |-> EmptyConfig, page_names |-> <<>>,
          html_str |-> StyledErrorHtml([text |-> "Failed to load", src |-> src])]
    ELSE IF Len(source.diagrams) = 0
    THEN [raised |-> FALSE, pages |-> pages, config |-> EmptyConfig, page_names |-> <<>>,
          html_str |-> StyledErrorHtml([text |-> "No diagrams found in", src |-> src])]
    ELSE LET diagrams == source.diagrams
             all_available == AllAvailable(diagrams)
             expanded == IF pages = NoPages THEN all_available
                         ELSE ExpandPages(pages, diagrams).expanded_pages
             sel == SelectPages(expanded, diagrams)
         IN  IF sel.raised
             THEN [raised |-> TRUE, pages |-> expanded, config |-> EmptyConfig,
                   page_names |-> <<>>, html_str |-> None]
             ELSE IF Len(sel.mxfile_el) = 0
             THEN [raised |-> FALSE, pages |-> expanded, config |-> EmptyConfig,
                   page_names |-> <<>>,
                   html_str |-> StyledErrorHtml(NoMatchMessage(src, expanded, all_available))]
             ELSE LET config == IF Len(sel.page_names) > 0
                                THEN [xml |-> sel.mxfile_el, title |-> sel.page_names[1]]
                                ELSE [xml |-> sel.mxfile_el]
                  IN  [raised |-> FALSE, pages |-> expanded, config |-> config,
                       page_names |-> sel.page_names,
                       html_str |-> SubTemplate(ViewerBackground(config), config)]

----------------------------------------------------------------------------
(* get_diagram_config (lines 108-212).  Option values are Python values    *)
(* with their type: the resolver asks isinstance(conf[name], str).         *)

StrV(s) == [type |-> "str", v |-> s]

IntV(i) == [type |-> "int", v |-> i]

BoolV(b) == [type |-> "bool", v |-> b]

NoneV == [type |-> "NoneType", v |-> None]

\* bool(x)
TruthyV(x) == CASE x.type = "bool" -> x.v
                [] x.type = "int" -> x.v # 0
                [] x.type = "str" -> x.v # <<>>
                [] OTHER -> FALSE

Ok(value) == [raised |-> FALSE, value |-> value]

Raise == [raised |-> TRUE, value |-> NoneV]

\* "sub" in s
Contains(s, t) == \E i \in 0..(Len(s) - Len(t)) : SubSeq(s, i + 1, i + Len(t)) = t

no_action(x) == Ok(x)

to_bool(x) ==
    IF x.type = "bool" THEN Ok(x)
    ELSE IF lower(x.v) \in {<<"t", "r", "u", "e">>, <<"1">>, <<"y", "e", "s">>} THEN Ok(BoolV(TRUE))
    ELSE IF lower(x.v) \in {<<"f", "a", "l", "s", "e">>, <<"0">>, <<"n", "o">>} THEN Ok(BoolV(FALSE))
    ELSE Ok(BoolV(FALSE))

to_int_or_str(x) == IF int(x.v).raised THEN Ok(x) ELSE Ok(IntV(int(x.v).value))

\* the coercion of data-edit (lines 148-152)
edit_coerce(x) ==
    IF x = BoolV(TRUE) THEN Ok(StrV(<<"_", "b", "l", "a", "n", "k">>))
    ELSE IF x.type = "str"
    THEN IF Contains(x.v, <<"?">>)
         THEN Ok(StrV(x.v \o <<"&", "c", "l", "i", "e", "n", "t", "=", "1">>))
         ELSE Ok(StrV(x.v \o <<"?", "c", "l", "i", "e", "n", "t", "=", "1">>))
    ELSE Ok(NoneV)

\* lambda x: int(x) + 5
padding_coerce(x) ==
    IF x.type = "int" THEN Ok(IntV(x.v + 5))
    ELSE IF int(x.v).raised THEN Raise ELSE Ok(IntV(int(x.v).value + 5))

\* to_str(text)(enabled)
to_str(text, enabled) == Ok(StrV(IF TruthyV(enabled) THEN text ELSE <<>>))

T(attr, name, default, coerce, text) ==
    [attr |-> attr, name |-> name, default |-> default, coerce |-> coerce, text |-> text]

Coerce(option, x) ==
    CASE option.coerce = "no_action" -> no_action(x)
      [] option.coerce = "to_bool" -> to_bool(x)
      [] option.coerce = "to_int_or_str" -> to_int_or_str(x)
      [] option.coerce = "edit" -> edit_coerce(x)
      [] option.coerce = "padding" -> padding_coerce(x)
      [] option.coerce = "to_str" -> to_str(option.text, x)

\* embed_options, in declared order (lines 140-168)
EmbedOptions(config) == <<
    T("data-page", "page", NoneV, "to_int_or_str", <<>>),
    T("data-layers", "layers", NoneV, "no_action", <<>>),
    T("data-zoom", "zoom", NoneV, "no_action", <<>>),
    T("data-edit", "edit", NoneV, "edit", <<>>),
    T("data-padding", "border", IntV(config.padding), "padding", <<>>),
    T("data-tooltips", "tooltips", BoolV(config.tooltips), "to_bool", <<>>),
    T("data-toolbar-position", "toolbar-position", StrV(config.toolbar.position), "no_action", <<>>),
    T("data-title", "title", NoneV, "no_action", <<>>),
    T("data-nohide", "toolbar-nohide", BoolV(config.toolbar.no_hide), "to_bool", <<>>),
    T("data-toolbar-pages", "toolbar", BoolV(config.toolbar.pages), "to_str", <<"p", "a", "g", "e", "s">>),
    T("data-toolbar-zoom", "toolbar", BoolV(config.toolbar.zoom), "to_str", <<"z", "o", "o", "m">>),
    T("data-toolbar-layers", "toolbar", BoolV(config.toolbar.layers), "to_str", <<"l", "a", "y", "e", "r", "s">>),
    T("data-toolbar-lightbox", "toolbar", BoolV(config.toolbar.lightbox), "to_str",
      <<"l", "i", "g", "h", "t", "b", "o", "x">>) >>

\* attrs of an img tag: a value for every attribute, None for an absent one
Has(attrs, attr) == attrs[attr] # None

\* diagram.attrs.get(attr, default)
AttrGet(attrs, attr, default) == IF Has(attrs, attr) THEN attrs[attr] ELSE default

\* dict assignment conf[name] = value
Put(conf, name, value) == (name :> value) @@ conf

\* dict deletion del conf[name]
Del(conf, name) == [k \in DOMAIN conf \ {name} |-> conf[k]]

\* The value of one option (lines 173-177)
OptionValue(option, attrs) ==
    LET fromDefault == IF option.default # NoneV THEN Coerce(option, option.default) ELSE Ok(NoneV)
    IN  IF fromDefault.raised THEN Raise
        ELSE IF Has(attrs, option.attr) THEN Coerce(option, StrV(attrs[option.attr]))
        ELSE fromDefault

\* f"{value}"
Format(x) == CASE x.type = "str" -> x.v
               [] x.type = "int" -> str(x.v)
               [] x.type = "bool" -> IF x.v THEN <<"T", "r", "u", "e">> ELSE <<"F", "a", "l", "s", "e">>
               [] OTHER -> None

\* One pass of the loop over embed_options (lines 172-183)
OptionStep(st, option, attrs) ==
    LET r == OptionValue(option, attrs)
    IN  IF r.raised THEN [st EXCEPT !.raised = TRUE]
        ELSE IF r.value = NoneV THEN st
        ELSE IF option.name \in DOMAIN st.conf /\ st.conf[option.name].type = "str"
        THEN [st EXCEPT !.conf = Put(@, option.name,
                                      StrV(st.conf[option.name].v \o <<" ">> \o Format(r.value)))]
        ELSE [st EXCEPT !.conf = Put(@, option.name, r.value)]

RECURSIVE OptionsFrom(_, _, _)
OptionsFrom(st, options, attrs) ==
    IF Len(options) = 0 \/ st.raised THEN st
    ELSE OptionsFrom(OptionStep(st, options[1], attrs), Tail(options), attrs)

EmptyConf == [k \in {} |-> NoneV]

\* the font list of lines 190-207
DefaultFonts == [type |-> "list", v |-> <<"Roboto Medium", "Roboto", "Roboto Condensed", "Roboto Mono">>]

\* get_diagram_config(diagram, page, src, page_names): the options map, or
\* raised when a coercion raises
get_diagram_config(config, attrs) ==
    LET st == OptionsFrom([raised |-> FALSE, conf |-> EmptyConf], EmbedOptions(config), attrs)
    IN  IF st.raised THEN [raised |-> TRUE, conf |-> EmptyConf]
        ELSE IF "toolbar" \notin DOMAIN st.conf THEN [raised |-> TRUE, conf |-> EmptyConf]
        ELSE LET stripped == strip(st.conf["toolbar"].v)
                 conf1 == IF stripped = <<>> THEN Del(st.conf, "toolbar")
                          ELSE Put(st.conf, "toolbar", StrV(stripped))
                 conf2 == Put(conf1, "defaultFonts", DefaultFonts)
                 viewer_bg == AttrGet(attrs, "background", config.background)
             IN  [raised |-> FALSE, conf |-> Put(conf2, "viewerBackground", StrV(viewer_bg))]

----------------------------------------------------------------------------
(* build_editor_url and inject_edit_link (lines 468-554).  A URL is a      *)
(* string cut in pieces: its scheme, its host, then the segments of its    *)
(* path.                                                                   *)

\* urlparse(url).hostname
Hostname(url) == IF Len(url) >= 2 THEN url[2] ELSE ""

\* urlparse(url).path.strip("/").split("/")
PathParts(url) == SubSeq(url, 3, Len(url))

\* determine_hash_prefix(base_url)
determine_hash_prefix(base_url) ==
    IF Hostname(base_url) \in {"github.com", "user.github.io"} THEN "H" ELSE "A"

\* path_parts.index("edit")
EditIndex(path_parts) ==
    CHOOSE i \in 1..Len(path_parts) :
        path_parts[i] = "edit" /\ \A j \in 1..(i - 1) : path_parts[j] # "edit"

\* edit_path.rsplit('/', 1)[0] on the segments of edit_path
AllButLast(segments) ==
    IF Len(segments) > 1 THEN SubSeq(segments, 1, Len(segments) - 1) ELSE segments

\* build_editor_url(diagram, src, page_id, page): the viewer URL, or "" (the
\* empty sequence) when one cannot be built
build_editor_url(config, attrs, src, page_id, host) ==
    LET base_url == AttrGet(attrs, "data-editor-url", config.editor_base_url)
    IN  IF ~Truthy(base_url) \/ ~Truthy(page_id) THEN <<>>
        ELSE IF ~Truthy(host.edit_url) THEN <<>>
        ELSE LET path_parts == PathParts(host.edit_url)
             IN  IF \A i \in 1..Len(path_parts) : path_parts[i] # "edit" THEN <<>>
                 ELSE LET edit_index == EditIndex(path_parts)
                          repo_prefix == SubSeq(path_parts, 1, edit_index - 1)
                          edit_path == SubSeq(path_parts, edit_index + 1, Len(path_parts))
                      IN  IF repo_prefix = <<>> \/ edit_path = <<>> THEN <<>>
                          ELSE base_url \o <<"#", determine_hash_prefix(base_url)>>
                                   \o repo_prefix \o AllButLast(edit_path) \o src
                                   \o <<"#", "pageId">> \o page_id

\* diagram_config.get(name, default)
ConfGet(conf, name, default) == IF name \in DOMAIN conf THEN conf[name] ELSE default

\* page_id of the first element of diagram_xml named page_names[0] (lines 478-482)
PageIdOf(diagram_xml, label) ==
    LET i == NameMatch(diagram_xml, label)
    IN  IF i = 0 THEN None ELSE get(diagram_xml[i], "id")

ClientSuffix == <<"?", "c", "l", "i", "e", "n", "t", "=", "1">>

\* Lines 488-493: the link is folded into the options
WithEditLink(conf, href) ==
    LET conf1 == Put(conf, "edit", StrV(href \o ClientSuffix))
        toolbar_value == ConfGet(conf1, "toolbar", StrV(<<>>))
    IN  IF toolbar_value.type = "str" /\ ~Contains(toolbar_value.v, <<"e", "d", "i", "t">>)
        THEN Put(conf1, "toolbar",
                 StrV(strip(strip(toolbar_value.v) \o <<" ", "e", "d", "i", "t">>)))
        ELSE conf1

\* The function without its first test: the link is built although editing
\* is disabled.
inject_edit_link_always(config, conf, attrs, config_data, page_names, host) ==
    IF "xml" \notin DOMAIN config_data \/ page_names = <<>> THEN [href |-> None, conf |-> conf]
    ELSE LET page_id == PageIdOf(config_data.xml, page_names[1])
             href == build_editor_url(config, attrs, attrs["src"], page_id, host)
         IN  IF Truthy(page_id) /\ Truthy(href)
             THEN [href |-> href, conf |-> WithEditLink(conf, href)]
             ELSE [href |-> None, conf |-> conf]

\* inject_edit_link(diagram_config, diagram, diagram_xml, page_names, page):
\* the returned link (None for no link) and diagram_config as the call leaves
\* it.  diagram_xml is the parse of config_data["xml"], None without it.
inject_edit_link(config, conf, attrs, config_data, page_names, host) ==
    LET config_edit == config.edit
        diagram_edit == lower(AttrGet(attrs, "data-edit", <<>>))
    IN  IF config_edit = BoolV(FALSE) \/ diagram_edit = <<"f", "a", "l", "s", "e">>
        THEN [href |-> None, conf |-> conf]
        ELSE IF "xml" \notin DOMAIN config_data \/ page_names = <<>>
        THEN [href |-> None, conf |-> conf]
        ELSE LET page_id == PageIdOf(config_data.xml, page_names[1])
             IN  IF ~Truthy(page_id) THEN [href |-> None, conf |-> conf]
                 ELSE LET href == build_editor_url(config, attrs, attrs["src"], page_id, host)
                      IN  IF Truthy(href)
                          THEN [href |-> href, conf |-> WithEditLink(conf, href)]
                          ELSE [href |-> None, conf |-> conf]

----------------------------------------------------------------------------
(* Inputs *)

\* Page names of the source documents: absent, empty, a plain name, and a name
\* that is the decimal string of a position.
Names == {None, <<>>, <<"A">>, <<"0">>}

\* The id of the page at position i: a distinct id, an empty id, or none
IdAt(i, kind) == CASE kind = "id" -> <<"p">> \o str(i)
                   [] kind = "empty" -> <<>>
                   [] OTHER -> None

\* The containers of k pages.  The content of a page is opaque; it differs
\* from page to page.
ContainersOf(k, names, idKinds) ==
    {[i \in 1..k |-> [name |-> n[i], id |-> IdAt(i - 1, d[i]), content |-> i - 1]] :
        n \in [1..k -> names], d \in [1..k -> idKinds]}

Sources == {Unreadable} \cup
           {Parsed(c) : c \in UNION {ContainersOf(k, Names, {"id"}) : k \in 0..MaxPages}}

\* Selector tokens: indices in and out of bounds, the aliases, ranges, a name
\* of a page, the empty token, a name of no page, and a superscript digit.
Tokens == {<<"0">>, <<"1">>, AtFirst, AtLast, <<"0", "-", "1">>,
           <<"1", "-", "2">>, <<"A">>, <<>>, <<"z", "z">>, <<Sup2>>}

Selections == {NoPages} \cup UNION {[1..k -> Tokens] : k \in 1..MaxTokens}

DiagramSrc == <<"d", ".", "d", "r", "a", "w", "i", "o">>

AttrNames == {"src", "alt", "background", "data-pages", "data-page", "data-layers",
              "data-zoom", "data-edit", "data-padding", "data-tooltips",
              "data-toolbar-position", "data-title", "data-nohide",
              "data-toolbar-pages", "data-toolbar-zoom", "data-toolbar-layers",
              "data-toolbar-lightbox", "data-editor-url"}

\* An img tag with the given attributes and the src of the diagram file
Img(given) == given @@ ("src" :> DiagramSrc) @@ [a \in AttrNames |-> None]

Transparent == <<"t", "r", "a", "n", "s", "p", "a", "r", "e", "n", "t">>

\* The defaults of DrawioConfig and Toolbar (lines 25-47)
DefaultToolbar == [pages |-> TRUE, zoom |-> TRUE, layers |-> TRUE, lightbox |-> TRUE,
                   position |-> <<"t", "o", "p">>, no_hide |-> FALSE]

DefaultSite == [toolbar |-> DefaultToolbar, tooltips |-> TRUE, padding |-> 10,
                edit |-> BoolV(FALSE), editor_base_url |-> None, background |-> Transparent]

NoConf == [raised |-> FALSE, conf |-> EmptyConf]

\* A host page without an edit_url
NoEditUrl == [edit_url |-> None]

NoSub == [raised |-> FALSE, pages |-> NoPages, config |-> EmptyConfig,
          page_names |-> <<>>, html_str |-> None]

----------------------------------------------------------------------------
(* Line 283: html_str, page_names = self.substitute_with_file(config_data, *)
(* path, diagram["src"], requested_pages, page.file.src_path).  An         *)
(* exception leaves _process_drawio_page.                                  *)

CallSubstitute ==
    /\ pc = "substitute"
    /\ sub' = substitute_with_file(src_file, img["src"], requested_pages)
    /\ pc' = IF sub'.raised THEN "raised" ELSE "config"
    /\ UNCHANGED <<site, host_page, todo, img, src_file, requested_pages,
                   diagram_config, editor_href, soup>>

\* substitute_with_file on every source document and every selection
InitSplice ==
    /\ pc = "substitute"
    /\ site = DefaultSite
    /\ host_page = NoEditUrl
    /\ todo = 0
    /\ img = Img(<<>>)
    /\ src_file \in Sources
    /\ requested_pages \in Selections
    /\ sub = NoSub
    /\ diagram_config = NoConf
    /\ editor_href = None
    /\ soup = <<>>

NextSplice == CallSubstitute

SpecSplice == InitSplice /\ [][NextSplice]_vars

----------------------------------------------------------------------------
(* Line 287: diagram_config = self.get_diagram_config(diagram, page,       *)
(* diagram["src"], page_names).  An exception leaves                       *)
(* _process_drawio_page.                                                   *)

CallGetDiagramConfig ==
    /\ pc = "config"
    /\ diagram_config' = get_diagram_config(site, img)
    /\ pc' = IF diagram_config'.raised THEN "raised" ELSE "edit"
    /\ UNCHANGED <<site, host_page, todo, img, src_file, requested_pages, sub,
                   editor_href, soup>>

\* Site configurations: every combination of the toolbar toggles, two
\* paddings, tooltips on and off
ConfigSites ==
    {[DefaultSite EXCEPT !.toolbar = [DefaultToolbar EXCEPT !.pages = tb[1], !.zoom = tb[2],
                                                            !.layers = tb[3], !.lightbox = tb[4]],
                         !.padding = pad, !.tooltips = tt] :
        tb \in [1..4 -> BOOLEAN], pad \in {0, 10}, tt \in BOOLEAN}

\* Per-instance overrides: usable and unusable strings for the integer, the
\* boolean and the toggle options
ConfigImgs ==
    {Img(("data-padding" :> pad) @@ ("data-tooltips" :> tt) @@ ("data-page" :> pg)
         @@ ("data-toolbar-zoom" :> tz) @@ ("data-edit" :> ed)) :
        pad \in {None, <<"3">>, <<"a", "b", "c">>},
        tt \in {None, <<"Y", "e", "s">>, <<"m", "a", "y", "b", "e">>},
        pg \in {None, <<"1">>, <<"A">>},
        tz \in {None, <<"f", "a", "l", "s", "e">>},
        ed \in {None, <<"u", "?", "a">>}}

\* get_diagram_config on every site configuration and every set of overrides
InitConfig ==
    /\ pc = "config"
    /\ site \in ConfigSites
    /\ host_page = NoEditUrl
    /\ todo = 0
    /\ img \in ConfigImgs
    /\ src_file = Unreadable
    /\ requested_pages = NoPages
    /\ sub = NoSub
    /\ diagram_config = NoConf
    /\ editor_href = None
    /\ soup = <<>>

NextConfig == CallGetDiagramConfig

SpecConfig == InitConfig /\ [][NextConfig]_vars

----------------------------------------------------------------------------
(* Lines 288-289: diagram_xml = etree.fromstring(config_data["xml"]) if    *)
(* "xml" in config_data else None; editor_href = self.inject_edit_link(    *)
(* diagram_config, diagram, diagram_xml, page_names, page).                *)

CallInjectEditLink ==
    /\ pc = "edit"
    /\ LET r == inject_edit_link(site, diagram_config.conf, img, sub.config,
                                 sub.page_names, host_page)
       IN  /\ editor_href' = r.href
           /\ diagram_config' = [diagram_config EXCEPT !.conf = r.conf]
    /\ pc' = "emit"
    /\ UNCHANGED <<site, host_page, todo, img, src_file, requested_pages, sub, soup>>

EditorBaseUrl == <<"https://", "app.diagrams.net", "/">>

\* Host pages: no edit_url, an edit_url with an "edit" segment, one without
HostPages == {NoEditUrl,
              [edit_url |-> <<"https://", "github.com", "org", "repo", "edit", "main", "docs", "index.md">>],
              [edit_url |-> <<"https://", "github.com", "org", "repo", "blob", "main", "index.md">>]}

\* Editing switched off and on, with and without an editor base URL
EditSites ==
    {[DefaultSite EXCEPT !.edit = BoolV(e), !.editor_base_url = b] :
        e \in BOOLEAN, b \in {None, EditorBaseUrl}}

EditImgs == {Img(<<>>), Img("data-edit" :> <<"F", "A", "L", "S", "E">>)}

\* Source documents whose pages have a distinct id, an empty id or none
EditSources ==
    {Parsed(c) : c \in UNION {ContainersOf(k, {None, <<"A">>, <<"0">>}, {"id", "empty", "none"}) :
                                k \in 0..MaxPages}}

EditSelections == {NoPages} \cup {<<t>> : t \in Tokens}

\* One diagram reference taken through substitute_with_file,
\* get_diagram_config and inject_edit_link
InitEdit ==
    /\ pc = "substitute"
    /\ site \in EditSites
    /\ host_page \in HostPages
    /\ todo = 0
    /\ img \in EditImgs
    /\ src_file \in EditSources
    /\ requested_pages \in EditSelections
    /\ sub = NoSub
    /\ diagram_config = NoConf
    /\ editor_href = None
    /\ soup = <<>>

NextEdit ==
    \/ CallSubstitute
    \/ CallGetDiagramConfig
    \/ CallInjectEditLink

SpecEdit == InitEdit /\ [][NextEdit]_vars

----------------------------------------------------------------------------
(* _process_drawio_page (lines 265-316): the loop over the img tags of a   *)
(* page whose src is a .drawio file.  The caption that build_caption adds  *)
(* next to the replaced tag is not part of the fragment and is left out.   *)

\* Lines 274-280: the selector of the tag
RequestedPages(attrs) ==
    IF Truthy(attrs["data-pages"])
    THEN LET parts == split(attrs["data-pages"], ",")
         IN  [i \in 1..Len(parts) |-> strip(parts[i])]
    ELSE IF Truthy(attrs["alt"]) THEN <<strip(attrs["alt"])>>
    ELSE NoPages

\* diagram_config.update(config_data)
Update(conf, config_data) ==
    [k \in DOMAIN conf \cup DOMAIN config_data |->
        IF k \in DOMAIN config_data
        THEN IF k = "xml" THEN [type |-> "xml", v |-> config_data[k]] ELSE StrV(config_data[k])
        ELSE conf[k]]

\* Lines 290-299: the fragment that replaces the tag
Container(conf, config_data) ==
    LET merged == Update(conf, config_data)
    IN  SubTemplate(ConfGet(merged, "viewerBackground", StrV(Transparent)).v, merged)

\* The img tags of a page: no selector, a name, a name of no page, an index
\* and a name with blanks, an alt text with editing switched off, a
\* superscript digit, a padding that is no number
PageImgs ==
    {Img(<<>>),
     Img("data-pages" :> <<"A">>),
     Img("data-pages" :> <<"z", "z">>),
     Img("data-pages" :> <<" ", "1", ",", "z", "z">>),
     Img(("alt" :> <<"A">>) @@ ("data-edit" :> <<"F", "A", "L", "S", "E">>)),
     Img("data-pages" :> <<Sup2>>),
     Img(("data-pages" :> <<"A">>) @@ ("data-padding" :> <<"a", "b", "c">>))}

\* The files the tags name: unreadable, without pages, with two pages, with
\* one unnamed page
PageSources ==
    {Unreadable,
     Parsed(<<>>),
     Parsed(<<[name |-> <<"A">>, id |-> IdAt(0, "id"), content |-> 0],
              [name |-> None, id |-> None, content |-> 1]>>),
     Parsed(<<[name |-> None, id |-> IdAt(0, "id"), content |-> 0]>>)}

PageSites == {DefaultSite,
              [DefaultSite EXCEPT !.edit = BoolV(TRUE), !.editor_base_url = EditorBaseUrl]}

\* for diagram in diagrams: (lines 273-282)
NextDiagram ==
    /\ pc = "loop"
    /\ todo > 0
    /\ todo' = todo - 1
    /\ img' \in PageImgs
    /\ src_file' \in PageSources
    /\ requested_pages' = RequestedPages(img')
    /\ sub' = NoSub
    /\ diagram_config' = NoConf
    /\ editor_href' = None
    /\ pc' = "substitute"
    /\ UNCHANGED <<site, host_page, soup>>

\* Lines 290-314: the options take the splice result, the fragment is built
\* and put in place of the tag
Replace ==
    /\ pc = "emit"
    /\ soup' = Append(soup, Container(diagram_config.conf, sub.config))
    /\ pc' = "loop"
    /\ UNCHANGED <<site, host_page, todo, img, src_file, requested_pages, sub,
                   diagram_config, editor_href>>

\* return str(soup)
Finish ==
    /\ pc = "loop"
    /\ todo = 0
    /\ pc' = "done"
    /\ UNCHANGED <<site, host_page, todo, img, src_file, requested_pages, sub,
                   diagram_config, editor_href, soup>>

Init ==
    /\ pc = "loop"
    /\ site \in PageSites
    /\ host_page \in HostPages
    /\ todo \in 1..MaxRefs
    /\ img = Img(<<>>)
    /\ src_file = Unreadable
    /\ requested_pages = NoPages
    /\ sub = NoSub
    /\ diagram_config = NoConf
    /\ editor_href = None
    /\ soup = <<>>

Next ==
    \/ NextDiagram
    \/ CallSubstitute
    \/ CallGetDiagramConfig
    \/ CallInjectEditLink
    \/ Replace
    \/ Finish

Spec == Init /\ [][Next]_vars

----------------------------------------------------------------------------
(* Properties of substitute_with_file, checked under SpecSplice *)

Diagrams == src_file.diagrams

\* substitute_with_file has returned (without raising)
Returned == pc = "config"

NonEmptyContainer == src_file.parsed /\ Len(Diagrams) > 0

RECURSIVE Flatten(_)
Flatten(ss) == IF Len(ss) = 0 THEN <<>> ELSE ss[1] \o Flatten(Tail(ss))

\* The expanded token stream of the selection, before de-duplication
TokenStream == Flatten([i \in 1..Len(requested_pages) |-> Resolve(requested_pages[i], Diagrams)])

FirstIndex(seq, x) == CHOOSE i \in 1..Len(seq) : seq[i] = x /\ \A j \in 1..(i - 1) : seq[j] # x

\* The page of the container at 0-based position i, as a copy
CopyAt(i) == Clone(Diagrams[i + 1])

\* C6: the expanded selection holds every identifier of the expanded token
\* stream exactly once, ordered by first occurrence in the stream; the
\* selection "0", "0", "@first" collapses to the single entry "0".
C6_ExpandedSelectionFirstSeenOnce ==
    (pc # "substitute" /\ NonEmptyContainer /\ requested_pages # NoPages) =>
        LET e == sub.pages
            st == TokenStream
        IN  /\ \A i, j \in 1..Len(e) : i # j => e[i] # e[j]
            /\ {e[i] : i \in 1..Len(e)} = {st[i] : i \in 1..Len(st)}
            /\ \A i, j \in 1..Len(e) : i < j => FirstIndex(st, e[i]) < FirstIndex(st, e[j])
            /\ (requested_pages = <<(<<"0">>), (<<"0">>), AtFirst>> => e = <<(<<"0">>)>>)

C6_Witness ==
    /\ pc # "substitute"
    /\ NonEmptyContainer
    /\ requested_pages = <<(<<"0">>), (<<"0">>), AtFirst>>
    /\ sub.pages = <<(<<"0">>)>>

\* A page the token selects under the claimed policy: a page of that name, or
\* the page at that position when the token is decimal digits within bounds
ClaimedMatch(token) ==
    \/ \E i \in 1..Len(Diagrams) : get(Diagrams[i], "name") = token
    \/ AllDecimal(token) /\ DecimalValue(token) < Len(Diagrams)

\* The label of a page of the container: its name, or its position as a string
OwnLabel(d) == Or(get(d, "name"), str(d.content))

\* C2: with a non-empty container and a non-empty selection of which no
\* expanded token matches a page, substitute_with_file returns the error
\* artifact listing every requested token and every available page name, an
\* empty name list, and a config without xml or title.
C2_NoMatchYieldsErrorArtifact ==
    (/\ pc # "substitute"
     /\ NonEmptyContainer
     /\ requested_pages # NoPages
     /\ \A i \in 1..Len(sub.pages) : ~ClaimedMatch(sub.pages[i])) =>
        /\ Returned
        /\ sub.html_str.kind = "drawio-error"
        /\ sub.html_str.message.requested = [i \in 1..Len(sub.pages) |-> escape(sub.pages[i])]
        /\ sub.html_str.message.available =
               [i \in 1..Len(Diagrams) |-> escape(OwnLabel(Diagrams[i]))]
        /\ sub.page_names = <<>>
        /\ DOMAIN sub.config = {}

\* C3: selecting "@first" from a non-empty container yields exactly one page,
\* a copy of the page at position 0, whatever the names of the pages.
C3_FirstAliasYieldsPositionZero ==
    (Returned /\ NonEmptyContainer /\ requested_pages = <<AtFirst>>) =>
        /\ "xml" \in DOMAIN sub.config
        /\ sub.config.xml = <<CopyAt(0)>>

\* C4: a range token start-end with start <= end < |C| yields exactly the
\* pages at positions start..end, ascending, whatever the names of the pages.
C4_RangeYieldsItsPositions ==
    \A t \in Tokens :
        LET parts == split(t, "-")
            start == int(parts[1]).value
            end == int(parts[2]).value
        IN  (/\ Returned
             /\ src_file.parsed
             /\ requested_pages = <<t>>
             /\ IsRange(t)
             /\ start <= end
             /\ end < Len(Diagrams)) =>
                /\ "xml" \in DOMAIN sub.config
                /\ sub.config.xml = [i \in 1..(end - start + 1) |-> CopyAt(start + i - 1)]

\* C5: with no selector, the spliced container holds a copy of every page
\* exactly once in source order, and the name list holds at position i the
\* name of page i, or the string of i when the page has no name.
C5_NoSelectorYieldsEveryPage ==
    (Returned /\ NonEmptyContainer /\ requested_pages = NoPages) =>
        /\ "xml" \in DOMAIN sub.config
        /\ sub.config.xml = [i \in 1..Len(Diagrams) |-> CopyAt(i - 1)]
        /\ sub.page_names = [i \in 1..Len(Diagrams) |-> OwnLabel(Diagrams[i])]

\* C9: every label of the name list is the name of the page appended with it
\* when that name is non-empty, else that page's own position as a string.
C9_LabelIsOfThePageAppended ==
    (Returned /\ src_file.parsed /\ "xml" \in DOMAIN sub.config) =>
        /\ Len(sub.page_names) = Len(sub.config.xml)
        /\ \A k \in 1..Len(sub.page_names) : sub.page_names[k] = OwnLabel(sub.config.xml[k])

\* The page the claimed policy picks for an identifier, as a 1-based
\* position, 0 when the identifier is skipped: the first page of that name,
\* else the page at that position for decimal digits within bounds
ClaimedPick(token) ==
    IF \E i \in 1..Len(Diagrams) : get(Diagrams[i], "name") = token
    THEN CHOOSE i \in 1..Len(Diagrams) :
            /\ get(Diagrams[i], "name") = token
            /\ \A j \in 1..(i - 1) : get(Diagrams[j], "name") # token
    ELSE IF AllDecimal(token) /\ DecimalValue(token) < Len(Diagrams)
    THEN DecimalValue(token) + 1
    ELSE 0

\* The copies of the pages picked for the identifiers, in selection order
RECURSIVE ClaimedSplice(_)
ClaimedSplice(tokens) ==
    IF Len(tokens) = 0 THEN <<>>
    ELSE (IF ClaimedPick(tokens[1]) = 0 THEN <<>> ELSE <<CopyAt(ClaimedPick(tokens[1]) - 1)>>)
             \o ClaimedSplice(Tail(tokens))

\* The spliced container the call left, empty when it left none
SplicedPages == IF "xml" \in DOMAIN sub.config THEN sub.config.xml ELSE <<>>

\* C11: the spliced container holds exactly the pages picked for the
\* identifiers of the selection, in selection order: for each identifier the
\* first page of that name, else the page at that position when the
\* identifier is decimal digits within bounds; any other identifier is
\* skipped and does not stop the processing of the later ones.
C11_SplicedPagesArePickedInOrder ==
    (pc # "substitute" /\ NonEmptyContainer) =>
        /\ Returned
        /\ SplicedPages = ClaimedSplice(sub.pages)

----------------------------------------------------------------------------
(* Properties of get_diagram_config, checked under SpecConfig *)

NoToolbarOverrides ==
    \A a \in {"data-toolbar-pages", "data-toolbar-zoom", "data-toolbar-layers",
              "data-toolbar-lightbox"} : ~Has(img, a)

\* C7: with the toolbar defaults pages, layers and lightbox on and zoom off,
\* and no per-instance toolbar override, the toolbar option is exactly
\* "pages layers lightbox".
C7_ToolbarOfEnabledTogglesOnly ==
    (/\ pc = "edit"
     /\ site.toolbar.pages /\ ~site.toolbar.zoom /\ site.toolbar.layers /\ site.toolbar.lightbox
     /\ NoToolbarOverrides) =>
        /\ "toolbar" \in DOMAIN diagram_config.conf
        /\ diagram_config.conf["toolbar"] =
               StrV(<<"p", "a", "g", "e", "s", " ", "l", "a", "y", "e", "r", "s", " ",
                      "l", "i", "g", "h", "t", "b", "o", "x">>)

\* C8: get_diagram_config returns an options map, whatever the site
\* configuration and the override strings; it never raises.
C8_ResolverNeverRaises ==
    pc # "config" => (pc = "edit" /\ ~diagram_config.raised)

----------------------------------------------------------------------------
(* Properties of inject_edit_link, checked under SpecEdit *)

\* Site-wide edit is False, or data-edit is "false" in any letter case
EditingDisabled ==
    \/ site.edit = BoolV(FALSE)
    \/ lower(AttrGet(img, "data-edit", <<>>)) = <<"f", "a", "l", "s", "e">>

\* A page of the spliced container has the first label as its name and a
\* non-empty id
LabelledPageWithId ==
    /\ "xml" \in DOMAIN sub.config
    /\ sub.page_names # <<>>
    /\ \E i \in 1..Len(sub.config.xml) :
          /\ get(sub.config.xml[i], "name") = sub.page_names[1]
          /\ Truthy(get(sub.config.xml[i], "id"))

\* The entry of an options map, None when it has none
Entry(conf, name) == IF name \in DOMAIN conf THEN conf[name] ELSE NoneV

\* C10: when editing is disabled, and when no page has both the first label
\* as its name and a non-empty id, inject_edit_link returns None without
\* raising and leaves the 'edit' and 'toolbar' options as they were.
C10_NoLinkWhenDisabledOrNoPageId ==
    [][(pc = "edit" /\ pc' # "edit" /\ (EditingDisabled \/ ~LabelledPageWithId)) =>
          /\ pc' = "emit"
          /\ editor_href' = None
          /\ Entry(diagram_config'.conf, "edit") = Entry(diagram_config.conf, "edit")
          /\ Entry(diagram_config'.conf, "toolbar") = Entry(diagram_config.conf, "toolbar")]_vars

\* inject_edit_link has returned None with editing disabled by data-edit,
\* where the site enables editing and a link could otherwise be built
C10_Witness ==
    /\ pc = "emit"
    /\ EditingDisabled
    /\ site.edit = BoolV(TRUE)
    /\ LabelledPageWithId
    /\ Truthy(build_editor_url(site, img, img["src"],
                               PageIdOf(sub.config.xml, sub.page_names[1]), host_page))
    /\ editor_href = None
    /\ Entry(diagram_config.conf, "edit") = Entry(get_diagram_config(site, img).conf, "edit")

----------------------------------------------------------------------------
(* Properties of _process_drawio_page, checked under Spec *)

\* The tag just replaced: the loop is back at its head after Replace
JustReplaced == pc = "loop" /\ soup # <<>>

\* The reference ended in a hard failure: the source was unreadable or had
\* no page, or no page survived the selection
HardFailure == "xml" \notin DOMAIN sub.config

\* C1: the fragment put in place of a diagram reference that ended in a hard
\* failure is the error artifact substitute_with_file returned, not a viewer
\* embed.
C1_HardFailureShowsErrorArtifact ==
    (JustReplaced /\ HardFailure) =>
        /\ soup[Len(soup)] = sub.html_str
        /\ soup[Len(soup)].kind # "mxgraph"

\* The reference being processed has failed hard: its source was unreadable
\* or had no page, or no identifier of its selection picks a page
FailsHard ==
    /\ pc \notin {"loop", "done", "substitute"}
    /\ \/ ~src_file.parsed
       \/ Diagrams = <<>>
       \/ \A i \in 1..Len(sub.pages) : ClaimedPick(sub.pages[i]) = 0

\* The fragment of the reference being processed when it is the only
\* reference of the page
FragmentAlone ==
    LET alone == substitute_with_file(src_file, img["src"], RequestedPages(img))
        conf == get_diagram_config(site, img).conf
        linked == inject_edit_link(site, conf, img, alone.config, alone.page_names,
                                   host_page)
    IN  Container(linked.conf, alone.config)

\* C12: a hard failure of one diagram reference (unreadable source, source
\* without pages, no matching page) never aborts the loop of
\* _process_drawio_page while later references remain, and the fragment that
\* replaces a reference is the one it gets as the only reference of the page.
C12_HardFailureNeverAbortsTheLoop ==
    /\ (FailsHard /\ todo > 0) => pc # "raised"
    /\ JustReplaced => soup[Len(soup)] = FragmentAlone

====
